---- MODULE Spec2Model ----
(***************************************************************************)
(* A model of haste-resolver's DependencyGraph: the haste map (Name Index), *)
(* the immediate resolution cache, the load() promise chain, the file       *)
(* change handler, resolveDependency with its file-then-directory loads,    *)
(* and getOrderedDependencies.                                              *)
(*                                                                          *)
(* Paths are sequences of path components ("/r/d/x.js" is                   *)
(* <<"r","d","x.js">>, "/" is <<>>).  Raw specifiers (the strings handed to *)
(* resolveDependency) are sequences of one-character strings, so that the   *)
(* code's tests on toModuleName[0] and toModuleName[1] are tests on the     *)
(* first two characters.  Logical names (haste ids) are sequences of        *)
(* components; the relative path "." is <<>>.                               *)
(***************************************************************************)
EXTENDS Integers, Sequences, FiniteSets, TLC

VARIABLES
  opts,       \* this._opts.providesModuleNodeModules: [set, dirs]
  fs,         \* the Fastfs view: file path -> content record
  hasteMap,   \* this._hasteMap: logical name -> owning entity
  cache,      \* this._immediateResolutionCache: <<path, specifier>> -> entity
  loadPhase,  \* position of the load() started by the constructor
  build,      \* _buildHasteMap: file -> stage and data of its _processHasteModule
  chain,      \* callbacks chained on this._loading that have not started yet
  task,       \* the chained callback that is running, if any
  nEvents,    \* number of 'change' events delivered so far
  calls,      \* the resolveDependency calls of the client
  coll,       \* the getOrderedDependencies call of the client
  lastReg,    \* history: the last _updateHasteMap call and the owner it found
  started     \* history: how many crawls and haste map builds were started

vars == <<opts, fs, hasteMap, cache, loadPhase, build, chain, task, nEvents,
          calls, coll, lastReg, started>>

----------------------------------------------------------------------------
(* Bounds *)

\* 'change' events delivered in one behaviour
MaxEvents == 2

\* package.json main fields followed by the from-scratch reference resolution
MaxMainHops == 3

----------------------------------------------------------------------------
(* Strings and paths *)

\* the characters of a raw specifier, e.g. Chars "pk/s"
SpecPkS  == <<"p", "k", "/", "s">>
SpecPkT  == <<"p", "k", "/", "t">>
SpecN    == <<"n", "n">>
SpecAB   == <<"a", "/", "b">>
SpecGone == <<"z", "z">>
SpecTop  == <<"t", "t">>
SpecUp   == <<".", ".", "/", "p", "/", "s">>
SpecAbs  == <<"/", "r", "/", "p", "/", "s">>
SpecUpQ  == <<".", ".", "/", "q">>

RECURSIVE SplitAcc(_, _, _, _)
SplitAcc(s, i, cur, acc) ==
  IF i > Len(s) THEN Append(acc, cur)
  ELSE IF s[i] = "/" THEN SplitAcc(s, i + 1, "", Append(acc, cur))
  ELSE SplitAcc(s, i + 1, cur \o s[i], acc)

\* String.prototype.split('/') of a raw string
Split(s) == SplitAcc(s, 1, "", <<>>)

RECURSIVE NormAcc(_, _, _)
NormAcc(parts, i, acc) ==
  IF i > Len(parts) THEN acc
  ELSE IF parts[i] = "" \/ parts[i] = "." THEN NormAcc(parts, i + 1, acc)
  ELSE IF parts[i] = ".."
    THEN NormAcc(parts, i + 1,
                 IF Len(acc) = 0 THEN acc ELSE SubSeq(acc, 1, Len(acc) - 1))
  ELSE NormAcc(parts, i + 1, Append(acc, parts[i]))

\* path.normalize on components: drops empty and "." components, applies ".."
Normalize(parts) == NormAcc(parts, 1, <<>>)

\* path.join of an absolute path and further components
Join(base, parts) == Normalize(base \o parts)

\* path.dirname; the dirname of "/" is "/", of a one-component name is "."
Dirname(p) == IF Len(p) = 0 THEN p ELSE SubSeq(p, 1, Len(p) - 1)

Basename(p) == IF Len(p) = 0 THEN "" ELSE p[Len(p)]

\* potentialModulePath + ext
AddExt(p, ext) ==
  IF Len(p) = 0 THEN <<ext>> ELSE [p EXCEPT ![Len(p)] = @ \o ext]

IsPrefix(p, q) == Len(p) <= Len(q) /\ SubSeq(q, 1, Len(p)) = p

\* path.relative(packageName, realModuleName) when packageName is an ancestor
Relative(anc, name) == SubSeq(name, Len(anc) + 1, Len(name))

\* the file stems of the modelled tree, for extname
Stems == {"x", "m", "s", "a", "b", "c", "nn", "tt", "index", "package", "lib"}

\* extname(name) === ext
HasExt(p, ext) == \E s \in Stems : Basename(p) = s \o "." \o ext

\* normalizePath(modulePath): path.normalize, trailing slash removed
normalizePath(spec) == Normalize(Split(spec))

\* isAbsolutePath(string)
isAbsolutePath(spec) == Len(spec) > 0 /\ spec[1] = "/"

----------------------------------------------------------------------------
(* The modelled tree *)

\* the roots option: the project root /r and a top-level /node_modules
Root == <<"r">>
RootNM == <<"node_modules">>
Roots == {Root, RootNM}

FileA    == <<"r", "a.js">>
FileB    == <<"r", "b.js">>
FileM    == <<"r", "m.js">>
FileX    == <<"r", "d", "x.js">>
FileC    == <<"r", "c.js">>
FileQI   == <<"r", "q", "index.js">>
PkgP     == <<"r", "p", "package.json">>
PkgQ     == <<"r", "q", "package.json">>
FilePS   == <<"r", "p", "s.js">>
FilePSJ  == <<"r", "p", "s.json">>
FilePTI  == <<"r", "p", "t", "index.js">>
FileNear == <<"r", "d", "node_modules", "nn.js">>
FileFar  == <<"r", "node_modules", "nn.js">>
FileNAB  == <<"r", "node_modules", "a", "b.js">>
FileTop  == <<"node_modules", "tt.js">>

AllFiles == {FileA, FileB, FileC, FileM, FileX, PkgP, PkgQ, FilePS, FilePTI,
             FilePSJ, FileQI, FileNear, FileFar, FileNAB, FileTop}

NoName == <<>>

\* file contents: what the Entity Reader and the package descriptor give
NoFile == [kind |-> "none", id |-> NoName, requires |-> <<>>,
           main |-> <<>>, redirect |-> <<>>]
Js(id, requires) == [kind |-> "js", id |-> id, requires |-> requires,
                     main |-> <<>>, redirect |-> <<>>]
\* redirect is a sequence of <<from name, to name>> pairs
Pkg(name, main, redirect) == [kind |-> "pkg", id |-> name, requires |-> <<>>,
                              main |-> main, redirect |-> redirect]

IdX == <<"X">>
IdY == <<"Y">>
IdPk == <<"pk">>
IdPkT == <<"pk", "t">>
IdN == <<"nn">>
IdAB == <<"ab">>

----------------------------------------------------------------------------
(* Entities *)

\* moduleCache.getModule(file): the Module entity of a path
ModuleOf(p) == [path |-> p, type |-> "Module"]

\* moduleCache.getPackage(file): the Package entity of a package.json
PackageOf(p) == [path |-> p, type |-> "Package"]

\* Package.root: the directory of the package.json
RootOf(ent) == Dirname(ent.path)

\* the value null, and the value undefined of a missing map entry
Null    == [path |-> <<>>, type |-> "null"]
NoOwner == [path |-> <<>>, type |-> "undefined"]

\* Module.hash(): the identity used by the visited set
HashOf(ent) == <<ent.type, ent.path>>

----------------------------------------------------------------------------
(* Fastfs and ModuleCache queries *)

fileExists(p) == p \in DOMAIN fs /\ fs[p].kind # "none"

dirExists(p) ==
  \/ p \in Roots
  \/ \E f \in AllFiles : fileExists(f) /\ IsPrefix(p, f) /\ Len(p) < Len(f)

\* the ignoreFilePath option of HasteDependencyResolver
ignoreFilePath(p) == \E i \in 1..Len(p) : p[i] = "__tests__"

\* the last index of 'node_modules' among the components, 0 when there is none
LastNodeModules(p) ==
  LET S == {i \in 1..Len(p) : p[i] = "node_modules"}
  IN IF S = {} THEN 0 ELSE CHOOSE i \in S : \A j \in S : j <= i

_isNodeModulesDir(file) ==
  LET idx == LastNodeModules(file) IN
  IF idx = 0 THEN FALSE
  ELSE IF ~opts.set THEN FALSE
  ELSE ~ \E i \in (idx + 1)..Len(file) : file[i] \in opts.dirs

RECURSIVE ClosestFrom(_)
ClosestFrom(dir) ==
  IF fileExists(Append(dir, "package.json")) THEN Append(dir, "package.json")
  ELSE IF Len(dir) = 0 THEN <<>>
  ELSE ClosestFrom(Dirname(dir))

\* moduleCache.getPackageForModule(module): the closest package.json above the
\* module, <<>> when there is none
getPackage(p) == ClosestFrom(Dirname(p))

RECURSIVE LookupPair(_, _, _)
LookupPair(pairs, i, name) ==
  IF i > Len(pairs) THEN name
  ELSE IF pairs[i][1] = name THEN pairs[i][2]
  ELSE LookupPair(pairs, i + 1, name)

\* _redirectRequire(fromModule, name): the rewrite of the requester's package
redirectRequire(from, name) ==
  LET pk == getPackage(from) IN
  IF pk = <<>> THEN name ELSE LookupPair(fs[pk].redirect, 1, name)

\* Package.getMain(): path.join(root, main), main defaulting to 'index'
getMain(pkgPath) ==
  LET m == fs[pkgPath].main IN
  Join(Dirname(pkgPath), IF m = <<>> THEN <<"index">> ELSE Split(m))

\* Module._read(): the data record built from the file content; only the
\* declared id is copied into it
ReadModule(content) == [id |-> content.id, hasDeps |-> FALSE, deps |-> <<>>]

ReadModule_WithRequires(content) ==
  [id |-> content.id, hasDeps |-> TRUE, deps |-> content.requires]

----------------------------------------------------------------------------
(* The haste map *)

EmptyMap == [n \in {} |-> NoOwner]

Lookup(map, name) == IF name \in DOMAIN map THEN map[name] ELSE NoOwner

Put(map, name, mod) ==
  [n \in DOMAIN map \cup {name} |-> IF n = name THEN mod ELSE map[n]]

\* an update without the Package/Module test
_updateHasteMap_NoPrecedence(map, name, mod) == Put(map, name, mod)

\* an update that keeps the existing owner unless a Module displaces a Package
_updateHasteMap_KeepFirst(map, name, mod) ==
  IF name \in DOMAIN map
    THEN IF mod.type = "Module" /\ map[name].type = "Package"
           THEN Put(map, name, mod) ELSE map
    ELSE Put(map, name, mod)

\* _updateHasteMap(name, mod) on the map
_updateHasteMap(map, name, mod) ==
  IF name \in DOMAIN map /\ mod.type = "Package" /\ map[name].type = "Module"
    THEN map
    ELSE Put(map, name, mod)

\* the _.each loop of _processFileChange: entries owned by absPath are deleted
RemoveOwned(map, absPath) ==
  [n \in {k \in DOMAIN map : map[k].path # absPath} |-> map[n]]

NoReg == [name |-> NoName, mod |-> NoOwner, prev |-> NoOwner]

\* history of the last _updateHasteMap call
RegOf(name, mod) ==
  [name |-> name, mod |-> mod, prev |-> Lookup(hasteMap, name)]

----------------------------------------------------------------------------
(* Initial state: the constructor has set the fields (lines 38-40); its call *)
(* of load() is the first step                                              *)

Calls == {"c1", "c2"}

\* a resolveDependency call: pc is the callback it waits for; mode tells whether
\* the load in progress belongs to _resolveHasteDependency or to
\* _resolveNodeDependency; cur is the path being loaded, queue the rest of the
\* searchQueue, noDir that the load is the index load of _loadAsDir.
\* History: target (the package fallback path), via, hit, and clean (no change
\* event has been delivered since the call started).
IdleCall == [pc |-> "idle", from |-> <<>>, spec |-> <<>>, mode |-> "none",
             cur |-> <<>>, queue |-> <<>>, noDir |-> FALSE,
             result |-> NoOwner, hit |-> FALSE, via |-> "none",
             target |-> <<>>, clean |-> TRUE]

\* a getOrderedDependencies call: wait counts the chained callbacks that the
\* promise returned by its load() still awaits
IdleColl == [pc |-> "idle", abs |-> FALSE, entry |-> <<>>, deps |-> <<>>,
             error |-> "none", wait |-> 0]

NoTask == [path |-> <<>>, isPkg |-> FALSE, stage |-> "none", data |-> NoFile]

\* the values of the providesModuleNodeModules option: not given (part_003 passes
\* it through undefined), or a list of directory names
OptsUnset == [set |-> FALSE, dirs |-> {}]
OptsEmpty == [set |-> TRUE, dirs |-> {}]
OptsA == [set |-> TRUE, dirs |-> {"a"}]

InitWith(fs0, optChoices) ==
  /\ opts \in optChoices
  /\ fs = fs0
  /\ hasteMap = EmptyMap
  /\ cache = [k \in {} |-> Null]
  /\ loadPhase = "new"
  /\ started = [crawl |-> 0, build |-> 0]
  /\ build = [f \in {} |-> [stage |-> "reading", data |-> NoFile]]
  /\ chain = <<>>
  /\ task = NoTask
  /\ nEvents = 0
  /\ calls = [c \in Calls |-> IdleCall]
  /\ coll = IdleColl
  /\ lastReg = NoReg

----------------------------------------------------------------------------
(* load(): crawl, fastfs.build(), _buildHasteMap() *)

\* a load() that starts the crawl whatever this._loading holds
load_NoMemo ==
  [phase |-> "crawling", started |-> [started EXCEPT !.crawl = @ + 1]]

\* load(): this._loading is returned when it is set; otherwise the crawl is
\* started and this._loading becomes the promise of the crawl and the build.
\* The result is the phase and the start counts after the call.
load ==
  IF loadPhase # "new"
    THEN [phase |-> loadPhase, started |-> started]
    ELSE [phase |-> "crawling", started |-> [started EXCEPT !.crawl = @ + 1]]

\* the last statement of the constructor: this.load()
Construct ==
  /\ loadPhase = "new"
  /\ loadPhase' = load.phase
  /\ started' = load.started
  /\ UNCHANGED <<opts, fs, hasteMap, cache, build, chain, task, nEvents, calls,
                 coll, lastReg>>

\* fastfs.findFilesByExt('js', {ignore: _isNodeModulesDir})
BuildFiles ==
  {f \in AllFiles : fileExists(f) /\ HasExt(f, "js") /\ ~_isNodeModulesDir(f)}

\* the crawl and fastfs.build() complete: _buildHasteMap() calls
\* _processHasteModule on every file, each starting its read
CrawlDone ==
  /\ loadPhase = "crawling"
  /\ build' = [f \in BuildFiles |-> [stage |-> "reading", data |-> NoFile]]
  /\ loadPhase' = IF BuildFiles = {} THEN "loaded" ELSE "building"
  /\ started' = [started EXCEPT !.build = @ + 1]
  /\ UNCHANGED <<opts, fs, hasteMap, cache, chain, task, nEvents, calls, coll,
                 lastReg>>

\* module._read() of one file of the build completes (or fails: the file is gone)
BuildRead(f) ==
  /\ loadPhase = "building"
  /\ f \in DOMAIN build
  /\ build[f].stage = "reading"
  /\ IF fileExists(f)
       THEN /\ build' = [build EXCEPT ![f] = [stage |-> "read", data |-> fs[f]]]
            /\ UNCHANGED loadPhase
       ELSE /\ loadPhase' = "failed"
            /\ UNCHANGED build
  /\ UNCHANGED <<opts, started, fs, hasteMap, cache, chain, task, nEvents, calls, coll,
                 lastReg>>

\* _processHasteModule: isHaste && getName().then(name => _updateHasteMap(name, module));
\* Promise.all resolves with the last file
BuildRegister(f) ==
  /\ loadPhase = "building"
  /\ f \in DOMAIN build
  /\ build[f].stage = "read"
  /\ LET data == ReadModule(build[f].data) IN
     IF data.id # NoName
       THEN /\ hasteMap' = _updateHasteMap(hasteMap, data.id, ModuleOf(f))
            /\ lastReg' = RegOf(data.id, ModuleOf(f))
       ELSE UNCHANGED <<hasteMap, lastReg>>
  /\ build' = [build EXCEPT ![f].stage = "done"]
  /\ loadPhase' = IF \A g \in DOMAIN build \ {f} : build[g].stage = "done"
                    THEN "loaded" ELSE "building"
  /\ UNCHANGED <<opts, started, fs, cache, chain, task, nEvents, calls, coll>>

----------------------------------------------------------------------------
(* _processFileChange(type, filePath, root, fstat) *)

\* the Fastfs view after the event
ApplyEvent(ev) ==
  IF ev.isDir THEN fs
  ELSE [fs EXCEPT ![ev.path] = IF ev.type = "delete" THEN NoFile ELSE ev.content]

EventPossible(ev) ==
  \/ ev.isDir
  \/ ev.type = "add" /\ ~fileExists(ev.path)
  \/ ev.type \in {"change", "delete"} /\ fileExists(ev.path)

\* the haste map after the synchronous part of the handler
MapAfterEvent(ev) ==
  IF ev.isDir \/ ignoreFilePath(ev.path) \/ _isNodeModulesDir(ev.path) THEN hasteMap
  ELSE IF ev.type \in {"delete", "change"} THEN RemoveOwned(hasteMap, ev.path)
  ELSE hasteMap

\* whether the handler chains a reprocessing callback on this._loading
Reprocessed(ev) ==
  /\ ~ev.isDir
  /\ ~ignoreFilePath(ev.path)
  /\ ~_isNodeModulesDir(ev.path)
  /\ ev.type # "delete"
  /\ (HasExt(ev.path, "js") \/ HasExt(ev.path, "json"))

FileChange(ev) ==
  /\ loadPhase \notin {"new", "crawling"}
  /\ nEvents < MaxEvents
  /\ EventPossible(ev)
  /\ nEvents' = nEvents + 1
  /\ fs' = ApplyEvent(ev)
  /\ cache' = [k \in {} |-> Null]
  /\ hasteMap' = MapAfterEvent(ev)
  /\ chain' = IF Reprocessed(ev)
                THEN Append(chain, [path |-> ev.path,
                                    isPkg |-> Basename(ev.path) = "package.json"])
                ELSE chain
  /\ calls' = [c \in Calls |->
                IF calls[c].pc = "idle" THEN calls[c]
                ELSE [calls[c] EXCEPT !.clean = FALSE]]
  /\ UNCHANGED <<opts, started, loadPhase, build, task, coll, lastReg>>

----------------------------------------------------------------------------
(* The callbacks chained on this._loading *)

\* the next chained callback starts once the promise before it has resolved:
\* _processHastePackage(absPath) or _processHasteModule(absPath) starts its read
TaskStart ==
  /\ loadPhase = "loaded"
  /\ task.stage = "none"
  /\ chain # <<>>
  /\ task' = [path |-> Head(chain).path, isPkg |-> Head(chain).isPkg,
              stage |-> "reading", data |-> NoFile]
  /\ chain' = Tail(chain)
  /\ UNCHANGED <<opts, started, fs, hasteMap, cache, loadPhase, build, nEvents, calls,
                 coll, lastReg>>

\* the read of the changed file completes, or rejects when the file is gone:
\* the rejection is not a SyntaxError, so this._loading becomes a rejected
\* promise ("broken": the callbacks chained after it never run)
TaskRead ==
  /\ task.stage = "reading"
  /\ IF fileExists(task.path)
       THEN /\ task' = [task EXCEPT !.stage = "read", !.data = fs[task.path]]
            /\ UNCHANGED loadPhase
       ELSE /\ task' = NoTask
            /\ loadPhase' = "broken"
  /\ UNCHANGED <<opts, started, fs, hasteMap, cache, build, chain, nEvents, calls, coll,
                 lastReg>>

\* isHaste && getName().then(name => _updateHasteMap(name, entity))
TaskRegister ==
  /\ task.stage = "read"
  /\ LET ent == IF task.isPkg THEN PackageOf(task.path) ELSE ModuleOf(task.path)
         id  == IF task.isPkg THEN task.data.id ELSE ReadModule(task.data).id
     IN IF id # NoName
          THEN /\ hasteMap' = _updateHasteMap(hasteMap, id, ent)
               /\ lastReg' = RegOf(id, ent)
          ELSE UNCHANGED <<hasteMap, lastReg>>
  /\ task' = NoTask
  /\ coll' = IF coll.pc = "waiting" /\ coll.wait > 0
               THEN [coll EXCEPT !.wait = @ - 1] ELSE coll
  /\ UNCHANGED <<opts, started, fs, cache, loadPhase, build, chain, nEvents, calls>>

\* no index work is pending: load() has resolved and every chained callback ran
Settled == loadPhase = "loaded" /\ chain = <<>> /\ task.stage = "none"

----------------------------------------------------------------------------
(* The index scenario: two modules and two packages competing for ids, and *)
(* two files under node_modules that declare ids                           *)

IndexFs ==
  [f \in {FileA, FileB, PkgP, PkgQ, FileNear, FileNAB} |->
     IF f = FileA THEN Js(IdY, <<>>)
     ELSE IF f = FileNear THEN Js(IdN, <<>>)
     ELSE IF f = FileNAB THEN Js(IdAB, <<>>)
     ELSE IF f = FileB THEN Js(IdY, <<>>)
     ELSE IF f = PkgP THEN Pkg(IdX, <<>>, <<>>)
     ELSE IF f = PkgQ THEN Pkg(IdX, <<>>, <<>>)
     ELSE NoFile]

Ev(type, path, content) ==
  [type |-> type, path |-> path, content |-> content, isDir |-> FALSE]

IndexEvents ==
  { Ev("change", FileA, Js(IdX, <<>>)),
    Ev("change", FileB, Js(IdX, <<>>)),
    Ev("change", FileB, Js(IdY, <<>>)),
    Ev("change", PkgP, Pkg(IdX, <<>>, <<>>)),
    Ev("change", PkgQ, Pkg(IdX, <<>>, <<>>)),
    Ev("change", FileNear, Js(IdN, <<>>)),
    Ev("delete", FileA, NoFile) }

InitIndex == InitWith(IndexFs, {OptsEmpty, OptsUnset, OptsA})

NextIndex ==
  \/ Construct
  \/ CrawlDone
  \/ \E f \in AllFiles : BuildRead(f)
  \/ \E f \in AllFiles : BuildRegister(f)
  \/ \E ev \in IndexEvents : FileChange(ev)
  \/ TaskStart
  \/ TaskRead
  \/ TaskRegister

SpecIndex == InitIndex /\ [][NextIndex]_vars

----------------------------------------------------------------------------
(* resolveDependency(fromModule, toModuleName): the pure parts *)

CharAt(s, i) == IF i <= Len(s) THEN s[i] ELSE ""

\* resolutionHash(modulePath, depName)
resolutionHash(from, spec) == <<from, spec>>

\* if (this._immediateResolutionCache[resHash]): a truthiness test
CacheHit(key) == key \in DOMAIN cache /\ cache[key] # Null

\* the test of resolveDependency that selects _resolveHasteDependency
HasteFirst(from, spec) ==
  ~_isNodeModulesDir(from) /\ CharAt(spec, 1) # "." /\ CharAt(spec, 1) # "/"

\* a cacheResult that forgets to store
cacheResult_Skip(cch, key, result) == cch

\* cacheResult(result): this._immediateResolutionCache[resHash] = result
cacheResult(cch, key, result) ==
  [k \in DOMAIN cch \cup {key} |-> IF k = key THEN result ELSE cch[k]]

\* forgive(): logs and returns null; the cache is not written
forgive(cch, key) == cch

\* a walk that prefers the outermost Package entry over the nearest one
RECURSIVE WalkPackage_Farthest(_, _)
WalkPackage_Farthest(packageName, dep) ==
  IF packageName = <<>> THEN [name |-> packageName, dep |-> dep]
  ELSE LET up == WalkPackage_Farthest(Dirname(packageName), dep)
           d  == Lookup(hasteMap, packageName)
       IN IF up.dep.type = "Package" THEN up
          ELSE IF d.type = "Package" THEN [name |-> packageName, dep |-> d]
          ELSE [name |-> <<>>, dep |-> d]

RECURSIVE WalkPackage(_, _)
\* the while loop of _resolveHasteDependency: from the name upwards until a
\* Package entry is found; dep is the last entry looked at
WalkPackage(packageName, dep) ==
  IF packageName = <<>> THEN [name |-> packageName, dep |-> dep]
  ELSE LET d == Lookup(hasteMap, packageName) IN
       IF d.type = "Package" THEN [name |-> packageName, dep |-> d]
       ELSE WalkPackage(Dirname(packageName), d)

\* the then-callback of _resolveHasteDependency on the rewritten name:
\* "module" with the entity, "package" with the path to load, or "throw"
HasteLookup(real) ==
  LET dep == Lookup(hasteMap, real) IN
  IF dep.type = "Module" THEN [kind |-> "module", ent |-> dep, target |-> <<>>]
  ELSE LET w == WalkPackage(real, dep) IN
       IF w.dep.type = "Package"
         THEN [kind |-> "package", ent |-> w.dep,
               target |-> Join(RootOf(w.dep), Relative(w.name, real))]
         ELSE [kind |-> "throw", ent |-> NoOwner, target |-> <<>>]

\* the test of _resolveNodeDependency that selects the relative/absolute branch
NodeRelative(spec) == CharAt(spec, 1) = "." \/ CharAt(spec, 2) = "/"

RECURSIVE SearchQueue(_, _)
\* the for loop of _resolveNodeDependency: currDir/node_modules/name for every
\* directory from dirname(fromModule.path) upwards while currDir !== '/'
SearchQueue(currDir, real) ==
  IF currDir = <<>> THEN <<>>
  ELSE <<Join(currDir, <<"node_modules">> \o real)>>
         \o SearchQueue(Dirname(currDir), real)

\* the paths _resolveNodeDependency tries, in order
NodeCandidates(from, spec) ==
  IF NodeRelative(spec)
    THEN <<redirectRequire(from,
             IF isAbsolutePath(spec) THEN Normalize(Split(spec))
             ELSE Join(Dirname(from), Split(spec)))>>
    ELSE SearchQueue(Dirname(from), redirectRequire(from, Normalize(Split(spec))))

\* a _loadAsFile that tries the .json suffix before .js
loadAsFile_JsonFirst(p) ==
  IF fileExists(p) THEN p
  ELSE IF fileExists(AddExt(p, ".json")) THEN AddExt(p, ".json")
  ELSE IF fileExists(AddExt(p, ".js")) THEN AddExt(p, ".js")
  ELSE <<>>

\* _loadAsFile(potentialModulePath): the file chosen, <<>> when it throws
loadAsFile(p) ==
  IF fileExists(p) THEN p
  ELSE IF fileExists(AddExt(p, ".js")) THEN AddExt(p, ".js")
  ELSE IF fileExists(AddExt(p, ".json")) THEN AddExt(p, ".json")
  ELSE <<>>

----------------------------------------------------------------------------
(* resolveDependency(fromModule, toModuleName): the asynchronous steps *)

KeyOf(call) == resolutionHash(call.from, call.spec)

\* the promise of the call settles: .then(cacheResult, forgive)
Finish(call, ent, via) ==
  [call EXCEPT !.pc = "done", !.result = ent, !.via = via]

\* the load at call.cur has thrown: the next .catch of the chain runs
LoadFailed(call) ==
  IF call.mode = "haste"
    THEN [call EXCEPT !.pc = "node", !.mode = "node"]
  ELSE IF call.queue # <<>>
    THEN [call EXCEPT !.pc = "file", !.cur = Head(call.queue),
                      !.queue = Tail(call.queue), !.noDir = FALSE]
  ELSE Finish(call, Null, "none")

\* the call record and the cache after a step of call c
Commit(c, nc) ==
  /\ calls' = [calls EXCEPT ![c] = nc]
  /\ cache' = IF nc.pc = "done" /\ ~nc.hit
                THEN IF nc.result # Null
                       THEN cacheResult(cache, KeyOf(nc), nc.result)
                       ELSE forgive(cache, KeyOf(nc))
                ELSE cache
  /\ UNCHANGED <<opts, started, fs, hasteMap, loadPhase, build, chain, task, nEvents,
                 coll, lastReg>>

\* the client calls resolveDependency once load() has resolved; the synchronous
\* part of resolveDependency: the cache test, then the choice
\* between _resolveHasteDependency and _resolveNodeDependency
ResolveCall(c, from, spec) ==
  /\ loadPhase = "loaded"
  /\ calls[c].pc = "idle"
  /\ LET call == [IdleCall EXCEPT !.from = from, !.spec = spec]
         key  == resolutionHash(from, spec)
     IN Commit(c,
          IF CacheHit(key)
            THEN [call EXCEPT !.pc = "done", !.result = cache[key],
                              !.hit = TRUE, !.via = "cache"]
          ELSE IF HasteFirst(from, spec)
            THEN [call EXCEPT !.pc = "haste", !.mode = "haste"]
          ELSE [call EXCEPT !.pc = "node", !.mode = "node"])

\* the then-callback of _resolveHasteDependency
HasteStep(c) ==
  /\ calls[c].pc = "haste"
  /\ LET call == calls[c]
         real == redirectRequire(call.from, normalizePath(call.spec))
         h    == HasteLookup(real)
     IN Commit(c,
          IF h.kind = "module" THEN Finish(call, h.ent, "module")
          ELSE IF h.kind = "package"
            THEN [call EXCEPT !.pc = "file", !.cur = h.target,
                              !.target = h.target, !.noDir = FALSE]
          ELSE [call EXCEPT !.pc = "node", !.mode = "node"])

\* _resolveNodeDependency after its _redirectRequire: the first load starts, or
\* the rejected promise of an empty searchQueue is returned
NodeStep(c) ==
  /\ calls[c].pc = "node"
  /\ LET call == calls[c]
         q    == NodeCandidates(call.from, call.spec)
     IN Commit(c,
          IF q = <<>> THEN Finish(call, Null, "none")
          ELSE [call EXCEPT !.pc = "file", !.cur = Head(q), !.queue = Tail(q),
                            !.noDir = FALSE])

\* the callback of _loadAsFile
FileStep(c) ==
  /\ calls[c].pc = "file"
  /\ LET call == calls[c]
         file == loadAsFile(call.cur)
     IN Commit(c,
          IF file # <<>>
            THEN Finish(call, ModuleOf(file),
                        IF call.mode = "haste" THEN "package" ELSE "node")
          ELSE IF call.noDir THEN LoadFailed(call)
          ELSE [call EXCEPT !.pc = "dir"])

\* the callback of _loadAsDir
DirStep(c) ==
  /\ calls[c].pc = "dir"
  /\ LET call == calls[c] IN
     Commit(c,
       IF ~dirExists(call.cur) THEN LoadFailed(call)
       ELSE IF fileExists(Append(call.cur, "package.json"))
         THEN [call EXCEPT !.pc = "main"]
       ELSE [call EXCEPT !.pc = "file", !.cur = Join(call.cur, <<"index">>),
                         !.noDir = TRUE])

\* getMain() of the directory's package.json resolves (or rejects: the file is
\* gone): this._loadAsFile(main).catch(() => this._loadAsDir(main))
MainStep(c) ==
  /\ calls[c].pc = "main"
  /\ LET call == calls[c]
         pj   == Append(call.cur, "package.json")
     IN Commit(c,
          IF ~fileExists(pj) THEN LoadFailed(call)
          ELSE [call EXCEPT !.pc = "file", !.cur = getMain(pj), !.noDir = FALSE])

----------------------------------------------------------------------------
(* The same resolution run to completion against the current state *)

RECURSIVE LoadNow(_, _)
\* _loadAsFile(p).catch(() => _loadAsDir(p)), following at most hops main fields
LoadNow(p, hops) ==
  LET file == loadAsFile(p)
      pj   == Append(p, "package.json")
  IN IF file # <<>> THEN ModuleOf(file)
     ELSE IF ~dirExists(p) THEN Null
     ELSE IF fileExists(pj)
       THEN IF hops = 0 THEN Null ELSE LoadNow(getMain(pj), hops - 1)
     ELSE LET idx == loadAsFile(Join(p, <<"index">>)) IN
          IF idx # <<>> THEN ModuleOf(idx) ELSE Null

RECURSIVE FirstLoad(_, _)
FirstLoad(q, i) ==
  IF i > Len(q) THEN Null
  ELSE LET r == LoadNow(q[i], MaxMainHops) IN
       IF r # Null THEN r ELSE FirstLoad(q, i + 1)

NodeNow(from, spec) == FirstLoad(NodeCandidates(from, spec), 1)

\* what resolveDependency returns when nothing is cached and nothing changes
\* while it runs
ResolveNow(from, spec) ==
  IF HasteFirst(from, spec)
    THEN LET h == HasteLookup(redirectRequire(from, normalizePath(spec))) IN
         IF h.kind = "module" THEN h.ent
         ELSE IF h.kind = "package"
           THEN LET r == LoadNow(h.target, MaxMainHops) IN
                IF r # Null THEN r ELSE NodeNow(from, spec)
         ELSE NodeNow(from, spec)
    ELSE NodeNow(from, spec)

----------------------------------------------------------------------------
(* The resolution scenario: a requester in /r/d, two haste packages "pk" and  *)
(* "pk/t", node_modules directories at /r/d, /r and /                        *)

ResolveFs ==
  [f \in {FileX, FilePS, FilePSJ, FilePTI, FileQI, FileNear, FileFar, FileNAB,
          FileTop, PkgP, PkgQ, FileM} |->
     IF f \in {FileX, FilePS, FilePSJ, FilePTI, FileQI, FileNear, FileFar, FileNAB,
               FileTop}
       THEN Js(NoName, <<>>)
     ELSE IF f = PkgP THEN Pkg(IdPk, <<>>, <<>>)
     ELSE IF f = PkgQ THEN Pkg(IdPkT, <<>>, <<>>)
     ELSE NoFile]

ResolveEvents ==
  { Ev("change", PkgP, Pkg(IdPk, <<>>, <<>>)),
    Ev("change", PkgQ, Pkg(IdPkT, <<>>, <<>>)),
    Ev("add", FileM, Js(IdN, <<>>)),
    Ev("delete", FileNear, NoFile) }

\* the <<requester, specifier>> pairs the client asks for
Requests ==
  { <<FileX, SpecPkS>>, <<FileX, SpecPkT>>, <<FileX, SpecN>>, <<FileX, SpecAB>>,
    <<FileX, SpecGone>>, <<FileX, SpecTop>>, <<FileFar, SpecN>>,
    <<FileX, SpecUp>>, <<FileX, SpecAbs>> }

\* the second call repeats the first call's request
RequestOf(c) ==
  IF c = "c1" THEN Requests
  ELSE IF calls["c1"].pc = "idle" THEN {}
  ELSE {<<calls["c1"].from, calls["c1"].spec>>}

InitResolve == InitWith(ResolveFs, {OptsEmpty})

NextResolve ==
  \/ Construct
  \/ CrawlDone
  \/ \E f \in AllFiles : BuildRead(f)
  \/ \E f \in AllFiles : BuildRegister(f)
  \/ \E ev \in ResolveEvents : FileChange(ev)
  \/ TaskStart
  \/ TaskRead
  \/ TaskRegister
  \/ \E c \in Calls : \E r \in RequestOf(c) : ResolveCall(c, r[1], r[2])
  \/ \E c \in Calls : HasteStep(c)
  \/ \E c \in Calls : NodeStep(c)
  \/ \E c \in Calls : FileStep(c)
  \/ \E c \in Calls : DirStep(c)
  \/ \E c \in Calls : MainStep(c)

SpecResolve == InitResolve /\ [][NextResolve]_vars

\* the same scenario with the providesModuleNodeModules option given or not
InitResolveAnyOpts == InitWith(ResolveFs, {OptsEmpty, OptsUnset})

SpecResolveAnyOpts == InitResolveAnyOpts /\ [][NextResolve]_vars

----------------------------------------------------------------------------
(* The main scenario: a requester, the two packages and the index file of *)
(* one of them, with change events that rewrite the packages' main fields  *)

\* main values: the package's own directory, and the sibling package directory
MainSelf == <<".">>
MainToP  == <<".", ".", "/", "p">>
MainToQ  == <<".", ".", "/", "q">>

MainFs ==
  [f \in {FileX, FileQI, PkgP, PkgQ} |->
     IF f \in {FileX, FileQI} THEN Js(NoName, <<>>)
     ELSE IF f = PkgP THEN Pkg(IdPk, <<>>, <<>>)
     ELSE Pkg(IdPkT, <<>>, <<>>)]

MainEvents ==
  { Ev("change", PkgQ, Pkg(IdPkT, <<>>, <<>>)),
    Ev("change", PkgQ, Pkg(IdPkT, MainSelf, <<>>)),
    Ev("change", PkgQ, Pkg(IdPkT, MainToP, <<>>)),
    Ev("change", PkgP, Pkg(IdPk, MainToQ, <<>>)) }

\* relative requests: resolveDependency sends them to _resolveNodeDependency
MainRequests == { <<FileX, SpecUpQ>>, <<FileX, SpecUp>> }

\* a callback of the promise chain of a call that started in
\* _resolveNodeDependency
CallStep(c) ==
  \/ NodeStep(c)
  \/ FileStep(c)
  \/ DirStep(c)
  \/ MainStep(c)

InitMain == InitWith(MainFs, {OptsEmpty})

NextMain ==
  \/ Construct
  \/ CrawlDone
  \/ \E f \in AllFiles : BuildRead(f)
  \/ \E f \in AllFiles : BuildRegister(f)
  \/ \E ev \in MainEvents : FileChange(ev)
  \/ TaskStart
  \/ TaskRead
  \/ TaskRegister
  \/ \E r \in MainRequests : ResolveCall("c1", r[1], r[2])
  \/ CallStep("c1")

\* the event loop runs every callback whose promise has settled
SpecMain == InitMain /\ [][NextMain]_vars /\ WF_vars(CallStep("c1"))

----------------------------------------------------------------------------
(* Claims about the haste map: registration conflicts *)

\* a step is a registration when a build read or a chained callback hands a
\* declared id to _updateHasteMap; lastReg' then describes that call
Registered ==
  \/ /\ task.stage = "read" /\ task'.stage = "none"
     /\ (IF task.isPkg THEN task.data.id ELSE ReadModule(task.data).id) # NoName
  \/ \E f \in DOMAIN build :
       /\ build[f].stage = "read" /\ build'[f].stage = "done"
       /\ ReadModule(build[f].data).id # NoName

\* the registration met an owner of the other kind (a Module and a Package)
MixedConflict(r) ==
  \/ r.prev.type = "Module" /\ r.mod.type = "Package"
  \/ r.prev.type = "Package" /\ r.mod.type = "Module"

\* C7: when a Module and a Package declare the same logical id, the owner of the
\* id after the second of the two has been registered is the Module, whichever
\* of the two was registered first.
C7_ModuleWins ==
  [][Registered /\ MixedConflict(lastReg') =>
       Lookup(hasteMap', lastReg'.name) =
         (IF lastReg'.mod.type = "Module" THEN lastReg'.mod ELSE lastReg'.prev)]_vars

\* C7 witness: a Package was registered for an id a Module owned, and the Module
\* is still the owner.
C7_Witness ==
  /\ lastReg.prev.type = "Module"
  /\ lastReg.mod.type = "Package"
  /\ Lookup(hasteMap, lastReg.name) = lastReg.prev

\* C8 as stated: a registration for an id that has an owner leaves the existing
\* owner in place, except when the owner is a Package and the registrant a
\* Module; two Modules or two Packages: the first registered stays.
C8_FirstStays ==
  [][Registered /\ lastReg'.prev.type # "undefined"
       /\ ~(lastReg'.prev.type = "Package" /\ lastReg'.mod.type = "Module") =>
       Lookup(hasteMap', lastReg'.name) = lastReg'.prev]_vars

\* C8 amended: a registration for an id that has an owner makes the registrant
\* the owner, except when the owner is a Module and the registrant a Package
\* (the Module is kept); two Modules or two Packages: the last registered owns.
C8_LastWins ==
  [][Registered /\ lastReg'.prev.type # "undefined" =>
       Lookup(hasteMap', lastReg'.name) =
         (IF lastReg'.prev.type = "Module" /\ lastReg'.mod.type = "Package"
            THEN lastReg'.prev ELSE lastReg'.mod)]_vars

\* C8 witness: a second Module registered an id another Module owned and is now
\* the owner.
C8_Witness ==
  /\ lastReg.prev.type = "Module"
  /\ lastReg.mod.type = "Module"
  /\ lastReg.prev.path # lastReg.mod.path
  /\ Lookup(hasteMap, lastReg.name) = lastReg.mod

----------------------------------------------------------------------------
(* Claims about resolveDependency *)

\* call c completes in this step after running the strategies
Completes(c) ==
  calls[c].pc # "done" /\ calls'[c].pc = "done" /\ ~calls'[c].hit

\* the synchronous part of call c runs in this step
Starts(c) == calls[c].pc = "idle" /\ calls'[c].pc # "idle"

\* C4: two calls with the same requester and specifier, no change event being
\* delivered from the start of the earlier one until both have ended, return the
\* same entity or both null.
C4_SameOutcome ==
  \A c \in Calls : \A d \in Calls :
    ( /\ calls[c].pc = "done" /\ calls[d].pc = "done"
      /\ KeyOf(calls[c]) = KeyOf(calls[d])
      /\ calls[c].clean /\ calls[d].clean )
    => calls[c].result = calls[d].result

C6_NoStaleEntry ==
  (Settled /\ nEvents > 0) =>
    \A k \in DOMAIN cache : cache[k] = ResolveNow(k[1], k[2])

\* the prefixes of a name that are ids of Packages in the haste map
PackagePrefixes(name) ==
  {i \in 1..Len(name) : Lookup(hasteMap, SubSeq(name, 1, i)).type = "Package"}

\* the nearest ancestor of the name (the name included) that is a Package id
NearestPackage(name) ==
  LET i == CHOOSE i \in PackagePrefixes(name) :
             \A j \in PackagePrefixes(name) : j <= i
  IN SubSeq(name, 1, i)

\* C9: for a bare specifier from a requester outside excluded directories whose
\* name has no Module owner, and with pkg the nearest ancestor of the name that
\* is a Package id, the haste step loads at <package root>/<rest of the name>,
\* and, nothing changing meanwhile, the call returns the entity of the
\* file-then-directory load at that path whenever that load finds one (other
\* strategies are tried only when it finds none).
C9_PackageFallback ==
  [][\A c \in Calls :
       LET name == normalizePath(calls[c].spec) IN
       /\ ( /\ calls[c].pc = "haste" /\ calls'[c].pc # "haste"
            /\ redirectRequire(calls[c].from, name) = name
            /\ Lookup(hasteMap, name).type # "Module"
            /\ PackagePrefixes(name) # {} )
          => /\ calls'[c].pc = "file"
             /\ calls'[c].mode = "haste"
             /\ calls'[c].cur =
                  Join(RootOf(Lookup(hasteMap, NearestPackage(name))),
                       Relative(NearestPackage(name), name))
             /\ calls'[c].target = calls'[c].cur
       /\ ( /\ calls[c].mode = "haste" /\ calls[c].pc \in {"file", "dir", "main"}
            /\ calls[c].clean
            /\ (calls'[c].pc = "done" \/ calls'[c].mode = "node") )
          => IF LoadNow(calls[c].target, MaxMainHops) # Null
               THEN /\ calls'[c].pc = "done"
                    /\ calls'[c].result = LoadNow(calls[c].target, MaxMainHops)
               ELSE calls'[c].mode = "node"]_vars

\* C9 witness: "pk/t", with packages "pk" and "pk/t" both in the haste map, was
\* resolved through the nearer package "pk/t" to its index file.
C9_Witness ==
  \E c \in Calls :
    /\ calls[c].pc = "done" /\ calls[c].via = "package"
    /\ calls[c].spec = SpecPkT
    /\ Lookup(hasteMap, IdPk).type = "Package"
    /\ Lookup(hasteMap, IdPkT).type = "Package"
    /\ calls[c].result = ModuleOf(FileQI)

RECURSIVE AncestorQueue(_, _)
\* <dir>/node_modules/<name> for dir and every ancestor of dir, "/" included
AncestorQueue(dir, name) ==
  <<Join(dir, <<"node_modules">> \o name)>>
    \o (IF dir = <<>> THEN <<>> ELSE AncestorQueue(Dirname(dir), name))

\* C10: a bare specifier that logical resolution did not resolve returns the
\* file-then-directory load at the nearest <ancestor>/node_modules/<name> where
\* that load succeeds, the filesystem root included, and null only when the load
\* fails at every ancestor.
C10_NearestNodeModules ==
  [][\A c \in Calls :
       ( /\ Completes(c)
         /\ calls[c].clean
         /\ CharAt(calls[c].spec, 1) \notin {".", "/"}
         /\ calls'[c].via \notin {"module", "package"} )
       => calls'[c].result =
            FirstLoad(AncestorQueue(Dirname(calls[c].from),
                                    normalizePath(calls[c].spec)), 1)]_vars

----------------------------------------------------------------------------
(* getOrderedDependencies(entryPath) *)

\* _getAbsolutePath(filePath): the path itself when absolute, the first root
\* under which the file exists otherwise, <<>> for null
_getAbsolutePath(entry) ==
  IF entry.abs THEN entry.parts
  ELSE IF \E root \in Roots : fileExists(Join(root, entry.parts))
    THEN Join(CHOOSE root \in Roots : fileExists(Join(root, entry.parts)),
              entry.parts)
  ELSE <<>>

RECURSIVE collectMod(_, _, _)
RECURSIVE collectDeps(_, _, _, _)

\* collect(mod): deps.push(mod); the dependency names of mod are resolved; then,
\* in order, every resolved and not yet visited dependency is marked and
\* collected.  mod.getDependencies() gives data.dependencies of Module._read():
\* when the data has none, depNames.map throws a TypeError.  With raw, the
\* require list of the file content is used instead of the data of _read().
collectMod(mod, st, raw) ==
  LET st1  == [st EXCEPT !.deps = Append(@, mod)]
      data == IF raw THEN ReadModule_WithRequires(fs[mod.path])
              ELSE ReadModule(fs[mod.path])
  IN IF ~data.hasDeps THEN [st1 EXCEPT !.error = "TypeError"]
     ELSE collectDeps([i \in 1..Len(data.deps) |->
                         ResolveNow(mod.path, data.deps[i])], 1, st1, raw)

collectDeps(targets, i, st, raw) ==
  IF i > Len(targets) \/ st.error # "none" THEN st
  ELSE IF targets[i] = Null \/ HashOf(targets[i]) \in st.visited
    THEN collectDeps(targets, i + 1, st, raw)
  ELSE collectDeps(targets, i + 1,
                   collectMod(targets[i],
                              [st EXCEPT !.visited = @ \cup {HashOf(targets[i])}],
                              raw),
                   raw)

\* the traversal of getOrderedDependencies from the entry
collectFrom(entryPath, raw) ==
  collectMod(ModuleOf(entryPath),
             [deps |-> <<>>, visited |-> {HashOf(ModuleOf(entryPath))},
              error |-> "none"],
             raw)

\* the client calls getOrderedDependencies on the constructed graph:
\* this.load() returns this._loading
CollectCall(entry) ==
  /\ loadPhase # "new"
  /\ coll.pc = "idle"
  /\ coll' = IF loadPhase \in {"failed", "broken"}
               THEN [coll EXCEPT !.pc = "rejected", !.abs = entry.abs,
                                 !.entry = entry.parts, !.error = "load"]
               ELSE [coll EXCEPT !.pc = "waiting", !.abs = entry.abs,
                       !.entry = entry.parts,
                       !.wait = Len(chain) + IF task.stage = "none" THEN 0 ELSE 1]
  /\ loadPhase' = load.phase
  /\ started' = load.started
  /\ UNCHANGED <<opts, fs, hasteMap, cache, build, chain, task, nEvents, calls,
                 lastReg>>

\* the promise awaited by the call has been rejected
CollectLoadFailed ==
  /\ coll.pc = "waiting"
  /\ loadPhase = "failed" \/ (loadPhase = "broken" /\ coll.wait > 0)
  /\ coll' = [coll EXCEPT !.pc = "rejected", !.error = "load"]
  /\ UNCHANGED <<opts, started, fs, hasteMap, cache, loadPhase, build, chain, task,
                 nEvents, calls, lastReg>>

\* the then-callback of load(): the entry is located, or NotFoundError is
\* thrown; collect(entry) pushes the entry and asks for its dependencies
CollectStart ==
  /\ coll.pc = "waiting"
  /\ coll.wait = 0
  /\ loadPhase \in {"loaded", "broken"}
  /\ LET absPath == _getAbsolutePath([abs |-> coll.abs, parts |-> coll.entry])
     IN coll' = IF absPath = <<>>
                  THEN [coll EXCEPT !.pc = "rejected", !.error = "NotFoundError"]
                  ELSE [coll EXCEPT !.pc = "reading", !.entry = absPath,
                                    !.deps = <<ModuleOf(absPath)>>]
  /\ UNCHANGED <<opts, started, fs, hasteMap, cache, loadPhase, build, chain, task,
                 nEvents, calls, lastReg>>

\* mod.getDependencies() of the entry resolves (or its read rejects) and the
\* rest of the traversal runs
CollectRead ==
  /\ coll.pc = "reading"
  /\ coll' =
       IF ~fileExists(coll.entry)
         THEN [coll EXCEPT !.pc = "rejected", !.error = "read"]
       ELSE LET st == collectFrom(coll.entry, FALSE) IN
            IF st.error # "none"
              THEN [coll EXCEPT !.pc = "rejected", !.error = st.error]
              ELSE [coll EXCEPT !.pc = "resolved", !.deps = st.deps]
  /\ UNCHANGED <<opts, started, fs, hasteMap, cache, loadPhase, build, chain, task,
                 nEvents, calls, lastReg>>

----------------------------------------------------------------------------
(* The collection scenario: a requires [b, c, zz], b requires [c], c requires  *)
(* [a]; zz cannot be resolved                                                 *)

SpecRelA == <<".", "/", "a">>
SpecRelB == <<".", "/", "b">>
SpecRelC == <<".", "/", "c">>

CollectFs ==
  [f \in {FileA, FileB, FileC, FileM} |->
     IF f = FileA THEN Js(NoName, <<SpecRelB, SpecRelC, SpecGone>>)
     ELSE IF f = FileB THEN Js(NoName, <<SpecRelC>>)
     ELSE IF f = FileC THEN Js(IdX, <<SpecRelA>>)
     ELSE NoFile]

CollectEvents ==
  { Ev("change", FileB, Js(NoName, <<>>)),
    Ev("delete", FileC, NoFile) }

Entries ==
  { [abs |-> FALSE, parts |-> <<"a.js">>],
    [abs |-> FALSE, parts |-> <<"b.js">>],
    [abs |-> TRUE, parts |-> FileC],
    [abs |-> TRUE, parts |-> FileM],
    [abs |-> FALSE, parts |-> <<"m.js">>] }

InitCollect == InitWith(CollectFs, {OptsEmpty, OptsUnset})

NextCollect ==
  \/ Construct
  \/ CrawlDone
  \/ \E f \in AllFiles : BuildRead(f)
  \/ \E f \in AllFiles : BuildRegister(f)
  \/ \E ev \in CollectEvents : FileChange(ev)
  \/ TaskStart
  \/ TaskRead
  \/ TaskRegister
  \/ \E entry \in Entries : CollectCall(entry)
  \/ CollectLoadFailed
  \/ CollectStart
  \/ CollectRead

SpecCollect == InitCollect /\ [][NextCollect]_vars

----------------------------------------------------------------------------
(* Claims about getOrderedDependencies *)

\* the call has settled, the entry exists and the tree never changed
CollectedFixed ==
  /\ coll.pc \in {"resolved", "rejected"}
  /\ coll.error # "NotFoundError"
  /\ nEvents = 0

\* what the require list of a file resolves to, unresolved specifiers left out
Targets(m) ==
  {ResolveNow(m.path, fs[m.path].requires[i]) :
     i \in 1..Len(fs[m.path].requires)} \ {Null}

RECURSIVE ReachFrom(_)
\* the entities reachable from the set S through resolvable specifiers
ReachFrom(S) ==
  LET T == S \cup UNION {Targets(m) : m \in S}
  IN IF T = S THEN S ELSE ReachFrom(T)

\* the pre-order depth-first sequence over the require lists of the files
PreOrder(entryPath) == collectFrom(entryPath, TRUE).deps

Elements(seq) == {seq[i] : i \in 1..Len(seq)}

\* some file reachable from the entry requires a specifier that resolves to
\* nothing
HasUnresolved(entryPath) ==
  \E m \in ReachFrom({ModuleOf(entryPath)}) :
    \E i \in 1..Len(fs[m.path].requires) :
      ResolveNow(m.path, fs[m.path].requires[i]) = Null

\* C1: collect(entry) returns the pre-order depth-first sequence of the
\* dependency graph: the entry first, then for each specifier in declared order
\* the whole subtree of its not yet visited target.
C1_PreOrder ==
  CollectedFixed =>
    /\ coll.pc = "resolved"
    /\ coll.deps = PreOrder(coll.entry)

\* C2: on a graph with cycles or diamonds collect(entry) terminates with an
\* output that holds every entity reachable from the entry exactly once.
C2_EachOnce ==
  CollectedFixed =>
    /\ coll.pc = "resolved"
    /\ Elements(coll.deps) = ReachFrom({ModuleOf(coll.entry)})
    /\ Len(coll.deps) = Cardinality(Elements(coll.deps))

\* C3: resolveDependency answers null for an unresolvable specifier (forgive;
\* ResolveNow gives Null), and a collect whose graph holds one still completes,
\* and its output holds every entity reachable through the other edges.
C3_Forgiven ==
  (CollectedFixed /\ HasUnresolved(coll.entry)) =>
    /\ coll.pc = "resolved"
    /\ ReachFrom({ModuleOf(coll.entry)}) \subseteq Elements(coll.deps)

----------------------------------------------------------------------------
(* Claims about load() *)

\* C11: over every sequence of load() calls (the constructor's, those of
\* getOrderedDependencies, before or after completion, before or after change
\* events) the crawl and the haste map build are started exactly once, and a
\* getOrderedDependencies call goes on only when that one build has completed.
C11_LoadOnce ==
  /\ started.crawl = (IF loadPhase = "new" THEN 0 ELSE 1)
  /\ started.build = (IF loadPhase \in {"new", "crawling"} THEN 0 ELSE 1)
  /\ (coll.pc \in {"reading", "resolved"} \/ coll.error \notin {"none", "load"})
       => /\ loadPhase \in {"loaded", "broken"}
          /\ \A f \in DOMAIN build : build[f].stage = "done"

\* C11 witness: a getOrderedDependencies call made while the build started by
\* the constructor is running waits for it, and no second crawl was started.
C11_Witness ==
  /\ coll.pc = "waiting"
  /\ loadPhase = "building"
  /\ \E f \in DOMAIN build : build[f].stage # "done"
  /\ started = [crawl |-> 1, build |-> 1]

----------------------------------------------------------------------------
(* Claims about the change handler and the haste map *)

\* a step in which a _processHasteModule of the initial build registers
BuildRegisters ==
  \E f \in DOMAIN build : build[f].stage = "read" /\ build'[f].stage = "done"

\* C12: every haste map mutation caused by a change event, the removal of the
\* entries owned by the changed path included, runs on the chain of load(): the
\* step that delivers the event leaves the map as it is, and while the initial
\* build is in progress the map changes only by the registrations of the build.
C12_MutationsOnChain ==
  [][/\ nEvents' # nEvents => hasteMap' = hasteMap
     /\ (loadPhase = "building" /\ hasteMap' # hasteMap) => BuildRegisters]_vars

----------------------------------------------------------------------------
(* Claims about the entry of getOrderedDependencies *)

\* the entry path of the call denotes no existing file, as it is or under a root
EntryMissing ==
  /\ ~fileExists(coll.entry)
  /\ \A root \in Roots : ~fileExists(Join(root, coll.entry))

\* C13: a getOrderedDependencies call whose entry path, relative or absolute,
\* denotes no existing file fails with NotFoundError before any entity is
\* created or traversed (the tree being fixed).
C13_EntryNotFound ==
  ( /\ coll.pc \notin {"idle", "waiting"}
    /\ coll.error # "load"
    /\ nEvents = 0
    /\ EntryMissing )
  => /\ coll.pc = "rejected"
     /\ coll.error = "NotFoundError"
     /\ coll.deps = <<>>

----------------------------------------------------------------------------
(* Claims about the initial build *)

\* the files whose declared ids the index is to hold: js files and package
\* descriptors, the ignored and the excluded ones left out
Eligible ==
  {f \in DOMAIN fs : /\ fileExists(f)
                     /\ fs[f].id # NoName
                     /\ ~ignoreFilePath(f)
                     /\ ~_isNodeModulesDir(f)}

\* C14: when the initial load() has completed and no change event was
\* delivered, every id declared by an eligible file has an owner, and a package
\* descriptor declaring a name owns it unless a Module declares the same id.
C14_AllDeclaredOwned ==
  (loadPhase = "loaded" /\ nEvents = 0) =>
    \A f \in Eligible :
      /\ Lookup(hasteMap, fs[f].id) # NoOwner
      /\ (fs[f].kind = "pkg"
          /\ ~\E g \in Eligible : fs[g].kind = "js" /\ fs[g].id = fs[f].id)
         => Lookup(hasteMap, fs[f].id).type = "Package"

\* C15: whatever the providesModuleNodeModules option is, not given included,
\* no haste map entry is owned by a file under a node_modules directory unless
\* a path component after the last node_modules is a name of the option's list.
C15_NoNodeModulesOwner ==
  \A n \in DOMAIN hasteMap :
    LET p == hasteMap[n].path IN
    LastNodeModules(p) # 0 =>
      \E i \in (LastNodeModules(p) + 1)..Len(p) : p[i] \in opts.dirs

----------------------------------------------------------------------------
(* Claims about the classification of specifiers and the order of strategies *)

\* the paths a call is about to load: the current one and the searchQueue
Candidates(call) == {call.cur} \cup {call.queue[i] : i \in 1..Len(call.queue)}

\* C16: a specifier is relative/absolute exactly when its first character is
\* '.' or '/'.  Such a specifier is loaded at the specifier itself (absolute) or
\* at the requester's directory joined with it (relative), and nowhere else; a
\* bare specifier is loaded only at <dir>/node_modules/<name> paths, never at
\* the requester's directory joined with it.
C16_FirstCharClassifies ==
  [][\A c \in Calls :
       (calls[c].pc = "node" /\ calls'[c].pc = "file") =>
         LET from == calls[c].from
             spec == calls[c].spec
             here == redirectRequire(from, Join(Dirname(from), Split(spec)))
         IN IF CharAt(spec, 1) = "/"
              THEN Candidates(calls'[c]) =
                     {redirectRequire(from, Normalize(Split(spec)))}
            ELSE IF CharAt(spec, 1) = "."
              THEN Candidates(calls'[c]) = {here}
            ELSE /\ here \notin Candidates(calls'[c])
                 /\ \A p \in Candidates(calls'[c]) :
                      \E i \in 1..Len(p) : p[i] = "node_modules"]_vars

\* the path lies under a node_modules directory and no component after the last
\* node_modules is a name of the opt-in list
Excluded(p) ==
  /\ LastNodeModules(p) # 0
  /\ ~\E i \in (LastNodeModules(p) + 1)..Len(p) : p[i] \in opts.dirs

\* C17: a call that is not answered from the cache consults the haste map
\* first exactly when its specifier is bare and its requester is outside the
\* excluded directories, and goes to the filesystem strategy at once otherwise;
\* a haste lookup that finds a Module owner of the rewritten name returns it,
\* and the filesystem strategy starts only when there is no such owner.
C17_StrategyOrder ==
  [][\A c \in Calls :
       LET real == redirectRequire(calls[c].from, normalizePath(calls[c].spec))
       IN
       /\ (Starts(c) /\ ~calls'[c].hit) =>
            calls'[c].pc =
              (IF Excluded(calls'[c].from)
                    \/ CharAt(calls'[c].spec, 1) \in {".", "/"}
                 THEN "node" ELSE "haste")
       /\ (calls[c].pc = "haste" /\ calls'[c].pc # "haste"
             /\ Lookup(hasteMap, real).type = "Module") =>
            /\ calls'[c].pc = "done"
            /\ calls'[c].result = Lookup(hasteMap, real)
       /\ (calls[c].mode = "haste" /\ calls'[c].mode = "node") =>
            Lookup(hasteMap, real).type # "Module"]_vars

----------------------------------------------------------------------------
(* Claims about the file-then-directory load *)

\* the first existing of the file P, P.js, P.json; <<>> when there is none
FirstExisting(p) ==
  IF fileExists(p) THEN p
  ELSE IF fileExists(AddExt(p, ".js")) THEN AddExt(p, ".js")
  ELSE IF fileExists(AddExt(p, ".json")) THEN AddExt(p, ".json")
  ELSE <<>>

RECURSIVE LoadSpec(_, _)
\* the file-then-directory load at P as the claim describes it, following at
\* most hops main fields; <<>> when the load fails
LoadSpec(p, hops) ==
  IF FirstExisting(p) # <<>> THEN FirstExisting(p)
  ELSE IF ~dirExists(p) THEN <<>>
  ELSE IF fileExists(Append(p, "package.json"))
    THEN IF hops = 0 THEN <<>>
         ELSE LoadSpec(getMain(Append(p, "package.json")), hops - 1)
  ELSE FirstExisting(Append(p, "index"))

\* the load of call c fails locally in this step: no entity is returned for the
\* path and the call goes on (next candidate, next strategy, or null)
FailsLocally(c) ==
  /\ calls'[c].pc \notin {"dir", "main"}
  /\ calls'[c].pc = "done" => calls'[c].result = Null
  /\ calls'[c].pc = "file" => calls'[c].cur # calls[c].cur

\* call c takes a step of its own (a file event only marks it)
Stepped(c) == calls'[c] # calls[c] /\ nEvents' = nEvents

\* C18: the load at P returns the first existing of the files P, P.js, P.json;
\* only when none exists and P is a directory does it look inside P: at the
\* descriptor's main when P holds a package.json, at P/index (index, index.js,
\* index.json) only when it holds none; otherwise the load fails locally.  The
\* load started by the package fallback ends accordingly.
C18_FileThenDirectory ==
  [][\A c \in Calls :
       LET cur == calls[c].cur
           pj  == Append(cur, "package.json")
       IN
       /\ (calls[c].pc = "file" /\ Stepped(c)) =>
            IF FirstExisting(cur) # <<>>
              THEN /\ calls'[c].pc = "done"
                   /\ calls'[c].result = ModuleOf(FirstExisting(cur))
            ELSE IF calls[c].noDir THEN FailsLocally(c)
            ELSE calls'[c].pc = "dir" /\ calls'[c].cur = cur
       /\ (calls[c].pc = "dir" /\ Stepped(c)) =>
            IF ~dirExists(cur) THEN FailsLocally(c)
            ELSE IF fileExists(pj)
              THEN calls'[c].pc = "main" /\ calls'[c].cur = cur
            ELSE /\ calls'[c].pc = "file" /\ calls'[c].noDir
                 /\ calls'[c].cur = Append(cur, "index")
       /\ (calls[c].pc = "main" /\ Stepped(c) /\ fileExists(pj)) =>
            /\ calls'[c].pc = "file" /\ ~calls'[c].noDir
            /\ calls'[c].cur = getMain(pj)
       /\ ( /\ calls[c].mode = "haste" /\ calls[c].pc \in {"file", "dir", "main"}
            /\ calls[c].clean /\ nEvents' = nEvents
            /\ (calls'[c].pc = "done" \/ calls'[c].mode = "node") )
          => IF LoadSpec(calls[c].target, MaxMainHops) # <<>>
               THEN /\ calls'[c].pc = "done"
                    /\ calls'[c].result =
                         ModuleOf(LoadSpec(calls[c].target, MaxMainHops))
               ELSE calls'[c].mode = "node"]_vars

\* C18 witness: a load at /r/p/s, where no file s exists and s.js and s.json
\* both do, has returned s.js.
C18_Witness ==
  /\ fileExists(FilePS) /\ fileExists(FilePSJ)
  /\ \E c \in Calls :
       /\ calls[c].pc = "done" /\ calls[c].target = <<"r", "p", "s">>
       /\ calls[c].result = ModuleOf(FilePS)

----------------------------------------------------------------------------
(* Claims about the haste map under delete and change events *)

\* C19: once a file has been deleted and no index work is pending (load() has
\* resolved, every chained callback has run), no haste map entry is owned by
\* the deleted path, however the delete event interleaved with the initial
\* build and with the reprocessing of earlier events.
C19_DeletedOwnsNothing ==
  Settled =>
    \A f \in DOMAIN fs :
      ~fileExists(f) => \A n \in DOMAIN hasteMap : hasteMap[n].path # f

\* C20: an id whose owner file declares it both before and after a change
\* event keeps an owner in the step that delivers the event: no reader of the
\* haste map sees the id without owner.
C20_NeverOwnerless ==
  [][\A n \in DOMAIN hasteMap :
       LET f == hasteMap[n].path IN
       ( /\ nEvents' = nEvents + 1
         /\ fileExists(f) /\ fs[f].id = n
         /\ fs'[f].kind # "none" /\ fs'[f].id = n )
       => Lookup(hasteMap', n) # NoOwner]_vars

----------------------------------------------------------------------------
(* Claims about failures that concern one file *)

\* C21: a failure that concerns one file (a file that cannot be read when
\* the initial build or the reprocessing of a change event gets to it) does
\* not abort the pipeline: the promise of load() is never rejected, neither by
\* the build nor by a chained callback, so the callbacks chained after it still
\* run; and the file whose read fails is left without haste map entry.
C21_FailureIsLocal ==
  /\ loadPhase \notin {"failed", "broken"}
  /\ \A f \in DOMAIN build :
       (build[f].stage = "reading" /\ ~fileExists(f)) =>
         \A n \in DOMAIN hasteMap : hasteMap[n].path # f

----------------------------------------------------------------------------
(* Claims about termination of the file-then-directory load *)

\* C22: whatever the main fields of the package.json files are (the package's
\* own directory and two packages whose mains point at each other included),
\* the file-then-directory load finishes with an entity or a local failure:
\* a resolveDependency call that was started eventually returns.
C22_EveryCallReturns ==
  (calls["c1"].pc # "idle") ~> (calls["c1"].pc = "done")

====
